---- MODULE Spec2Model ----
(***************************************************************************)
(* Veterinary-clinic backend (FastAPI handlers over SQLAlchemy CRUD        *)
(* singletons).  The relational store is the state; every handler is an    *)
(* action, and the handlers that commit more than once are split at their  *)
(* commits.  Text is modelled as sequences of one-character strings so     *)
(* that strip(), lower() and replace() are computed, not assumed.          *)
(***************************************************************************)
EXTENDS Integers, Sequences, FiniteSets, TLC

VARIABLES
    usuarios,           \* table usuarios: id_usuario -> row
    cliente,            \* table Cliente: id_cliente -> row
    mascota,            \* table Mascota: id_mascota -> row
    cliente_mascota,    \* table Cliente_Mascota: set of rows
    cita,               \* table Cita: id_cita -> row
    veterinario,        \* table Veterinario: id_veterinario -> row
    solicitud,          \* table Solicitud_atencion: id_solicitud -> row
    consulta,           \* table Consulta: id_consulta -> row
    historial,          \* table Historial_clinico: id_historial -> row
    diagnostico,        \* table Diagnostico: id_diagnostico -> row
    finalizadas,        \* history, kept under SpecWorkflowLogged only: the consultas a
                        \* finalizar_consulta call has released the veterinarian of
                        \* (no column of Consulta stores it)
    req,                \* in-flight requests: worker -> handler position and locals
    resp                \* the last response sent (handler, inputs, status)

vars == <<usuarios, cliente, mascota, cliente_mascota, cita, veterinario,
          solicitud, consulta, historial, diagnostico, finalizadas, req, resp>>

authVars == <<usuarios>>
clienteVars == <<cliente, mascota, cliente_mascota, cita>>
clinicVars == <<veterinario, solicitud, consulta, historial, diagnostico, finalizadas>>

(***************************************************************************)
(* Bounds of the model.                                                    *)
(***************************************************************************)
NumUsuarios == 2
NumClientes == 2
MaxMascotas == 2
NumVeterinarios == 1
NumTriajes == 2
MaxConsultas == 2

Min(S) == CHOOSE x \in S : \A y \in S : x <= y

(***************************************************************************)
(* Text: str.strip(), str.lower(), str.replace('_', '').                   *)
(***************************************************************************)
Lower(c) ==
    CASE c = "A" -> "a" [] c = "C" -> "c" [] c = "H" -> "h" [] c = "M" -> "m"
      [] c = "R" -> "r" [] c = "S" -> "s" [] c = "T" -> "t" [] c = "V" -> "v"
      [] c = "P" -> "p" [] OTHER -> c

StrLower(s) == [i \in 1..Len(s) |-> Lower(s[i])]

RECURSIVE LStrip(_)
LStrip(s) == IF s # <<>> /\ Head(s) = " " THEN LStrip(Tail(s)) ELSE s

RECURSIVE RStrip(_)
RStrip(s) == IF s # <<>> /\ s[Len(s)] = " " THEN RStrip(SubSeq(s, 1, Len(s) - 1)) ELSE s

Strip(s) == RStrip(LStrip(s))

RemoveUnderscores(s) == SelectSeq(s, LAMBDA c : c # "_")

(***************************************************************************)
(* ORM models: __tablename__ and the attributes whose name starts with     *)
(* "id" (the only ones a candidate of CRUDBase.get can name), each with    *)
(* the field of the row that holds the column.                             *)
(***************************************************************************)
UsuarioModel ==
    [name |-> "Usuario", tablename |-> <<"u", "s", "u", "a", "r", "i", "o", "s">>,
     attrs |-> (<<"i", "d", "_", "u", "s", "u", "a", "r", "i", "o">> :> "id_usuario")]

ClienteModel ==
    [name |-> "Cliente", tablename |-> <<"C", "l", "i", "e", "n", "t", "e">>,
     attrs |-> (<<"i", "d", "_", "c", "l", "i", "e", "n", "t", "e">> :> "id_cliente")]

MascotaModel ==
    [name |-> "Mascota", tablename |-> <<"M", "a", "s", "c", "o", "t", "a">>,
     attrs |-> (<<"i", "d", "_", "m", "a", "s", "c", "o", "t", "a">> :> "id_mascota")
            @@ (<<"i", "d", "_", "r", "a", "z", "a">> :> "id_raza")]

VeterinarioModel ==
    [name |-> "Veterinario", tablename |-> <<"V", "e", "t", "e", "r", "i", "n", "a", "r", "i", "o">>,
     attrs |-> (<<"i", "d", "_", "v", "e", "t", "e", "r", "i", "n", "a", "r", "i", "o">> :> "id_veterinario")
            @@ (<<"i", "d", "_", "u", "s", "u", "a", "r", "i", "o">> :> "id_usuario")
            @@ (<<"i", "d", "_", "e", "s", "p", "e", "c", "i", "a", "l", "i", "d", "a", "d">> :> "id_especialidad")]

SolicitudAtencionModel ==
    [name |-> "SolicitudAtencion", tablename |-> <<"S", "o", "l", "i", "c", "i", "t", "u", "d", "_", "a", "t", "e", "n", "c", "i", "o", "n">>,
     attrs |-> (<<"i", "d", "_", "s", "o", "l", "i", "c", "i", "t", "u", "d">> :> "id_solicitud")
            @@ (<<"i", "d", "_", "m", "a", "s", "c", "o", "t", "a">> :> "id_mascota")
            @@ (<<"i", "d", "_", "r", "e", "c", "e", "p", "c", "i", "o", "n", "i", "s", "t", "a">> :> "id_recepcionista")]

TriajeModel ==
    [name |-> "Triaje", tablename |-> <<"T", "r", "i", "a", "j", "e">>,
     attrs |-> (<<"i", "d", "_", "t", "r", "i", "a", "j", "e">> :> "id_triaje")
            @@ (<<"i", "d", "_", "s", "o", "l", "i", "c", "i", "t", "u", "d">> :> "id_solicitud")
            @@ (<<"i", "d", "_", "v", "e", "t", "e", "r", "i", "n", "a", "r", "i", "o">> :> "id_veterinario")]

ConsultaModel ==
    [name |-> "Consulta", tablename |-> <<"C", "o", "n", "s", "u", "l", "t", "a">>,
     attrs |-> (<<"i", "d", "_", "c", "o", "n", "s", "u", "l", "t", "a">> :> "id_consulta")
            @@ (<<"i", "d", "_", "t", "r", "i", "a", "j", "e">> :> "id_triaje")
            @@ (<<"i", "d", "_", "v", "e", "t", "e", "r", "i", "n", "a", "r", "i", "o">> :> "id_veterinario")]

ServicioSolicitadoModel ==
    [name |-> "ServicioSolicitado", tablename |-> <<"S", "e", "r", "v", "i", "c", "i", "o", "_", "S", "o", "l", "i", "c", "i", "t", "a", "d", "o">>,
     attrs |-> (<<"i", "d", "_", "s", "e", "r", "v", "i", "c", "i", "o", "_", "s", "o", "l", "i", "c", "i", "t", "a", "d", "o">> :> "id_servicio_solicitado")
            @@ (<<"i", "d", "_", "c", "o", "n", "s", "u", "l", "t", "a">> :> "id_consulta")
            @@ (<<"i", "d", "_", "s", "e", "r", "v", "i", "c", "i", "o">> :> "id_servicio")]

HistorialClinicoModel ==
    [name |-> "HistorialClinico",
     tablename |-> <<"H", "i", "s", "t", "o", "r", "i", "a", "l", "_", "c", "l", "i", "n", "i", "c", "o">>,
     attrs |-> (<<"i", "d", "_", "h", "i", "s", "t", "o", "r", "i", "a", "l">> :> "id_historial")
            @@ (<<"i", "d", "_", "m", "a", "s", "c", "o", "t", "a">> :> "id_mascota")
            @@ (<<"i", "d", "_", "c", "o", "n", "s", "u", "l", "t", "a">> :> "id_consulta")
            @@ (<<"i", "d", "_", "d", "i", "a", "g", "n", "o", "s", "t", "i", "c", "o">> :> "id_diagnostico")
            @@ (<<"i", "d", "_", "t", "r", "a", "t", "a", "m", "i", "e", "n", "t", "o">> :> "id_tratamiento")
            @@ (<<"i", "d", "_", "v", "e", "t", "e", "r", "i", "n", "a", "r", "i", "o">> :> "id_veterinario")]

ResultadoServicioModel ==
    [name |-> "ResultadoServicio",
     tablename |-> <<"R", "e", "s", "u", "l", "t", "a", "d", "o", "_", "s", "e", "r", "v", "i", "c", "i", "o">>,
     attrs |-> (<<"i", "d", "_", "r", "e", "s", "u", "l", "t", "a", "d", "o">> :> "id_resultado")
            @@ (<<"i", "d", "_", "c", "i", "t", "a">> :> "id_cita")
            @@ (<<"i", "d", "_", "v", "e", "t", "e", "r", "i", "n", "a", "r", "i", "o">> :> "id_veterinario")]

(***************************************************************************)
(* CRUDBase.get: the id column is the first candidate name the model has;  *)
(* with none the call raises.  Otherwise the first row whose column equals *)
(* id, or None.  The result names the row by its primary key.              *)
(***************************************************************************)
IdCandidates(tablename) ==
    << <<"i", "d", "_">> \o StrLower(tablename),
       <<"i", "d", "_">> \o RemoveUnderscores(StrLower(tablename)),
       <<"i", "d">>,
       <<"i", "d", "_", "s", "o", "l", "i", "c", "i", "t", "u", "d">>,
       <<"i", "d", "_", "c", "i", "t", "a">> >>

HasIdField(model) ==
    \E i \in 1..Len(IdCandidates(model.tablename)) :
        IdCandidates(model.tablename)[i] \in DOMAIN model.attrs

IdField(model) ==
    LET c == IdCandidates(model.tablename)
    IN  c[Min({i \in 1..Len(c) : c[i] \in DOMAIN model.attrs})]

Models ==
    {UsuarioModel, ClienteModel, MascotaModel, VeterinarioModel, SolicitudAtencionModel,
     TriajeModel, ConsultaModel, ServicioSolicitadoModel, HistorialClinicoModel,
     ResultadoServicioModel}

\* the loop over the candidates, evaluated once per model class (keyed by the
\* class name): the choice depends on the model class alone
id_field_of ==
    [n \in {m.name : m \in Models} |->
        LET m == CHOOSE x \in Models : x.name = n
        IN  IF HasIdField(m)
            THEN [raised |-> FALSE, column |-> m.attrs[IdField(m)]]
            ELSE [raised |-> TRUE, column |-> ""]]

CRUDBase_get(model, table, id) ==
    IF id_field_of[model.name].raised
    THEN [raised |-> TRUE, found |-> FALSE, pk |-> 0]
    ELSE LET col == id_field_of[model.name].column
             hits == {k \in DOMAIN table : table[k][col] = id}
         IN  IF hits = {}
             THEN [raised |-> FALSE, found |-> FALSE, pk |-> 0]
             ELSE [raised |-> FALSE, found |-> TRUE, pk |-> Min(hits)]

(***************************************************************************)
(* Authentication and permissions (app/crud/auth_crud.py).                 *)
(***************************************************************************)
Digits == <<"1", "2", "3", "4", "5", "6">>

\* usernames as UsuarioCreate stores them: stripped and lower-cased
UserName(i) == <<"v", "e", "t", Digits[i]>>

TiposUsuario == <<"Administrador", "Veterinario", "Recepcionista">>

TipoOf(i) == TiposUsuario[((i - 1) % Len(TiposUsuario)) + 1]

UsuarioIds == 1..NumUsuarios

\* ids a request may name: every stored one and one that has no row
UsuarioIdInputs == 1..(NumUsuarios + 1)

\* usernames a request may carry: stored ones, the same in other case or
\* padded with blanks, one that has no row, and one too short
UsernameInputs ==
    {UserName(i) : i \in UsuarioIdInputs}
    \cup {<<"V", "e", "t", "1">>, <<" ">> \o UserName(1) \o <<" ">>, <<"v", "e">>}

PasswordInputs == {<<"p", "w", "1">>, <<"P", "w", "1">>, <<"p", "w">>}

\* CheckConstraint LENGTH(contraseña) >= 3
StoredPasswords == {p \in PasswordInputs : Len(p) >= 3}

\* who sends a request; no handler receives or reads it
Callers == {"Administrador", "Recepcionista", "Anonimo"}

AllPermissions ==
    {"ver_dashboard", "gestionar_usuarios", "gestionar_clientes", "gestionar_mascotas",
     "gestionar_veterinarios", "gestionar_recepcionistas", "ver_reportes",
     "gestionar_catalogos", "realizar_triaje", "realizar_consultas", "gestionar_citas",
     "ver_historial", "configurar_sistema"}

permissions ==
    [t \in {"Administrador", "Veterinario", "Recepcionista"} |->
        [p \in AllPermissions |->
            CASE t = "Administrador" -> TRUE
              [] t = "Veterinario" ->
                    p \notin {"gestionar_usuarios", "gestionar_veterinarios",
                              "gestionar_recepcionistas", "gestionar_catalogos",
                              "configurar_sistema"}
              [] t = "Recepcionista" ->
                    p \in {"gestionar_clientes", "gestionar_mascotas", "gestionar_citas"}]]

\* permissions.get(tipo_usuario, {})
get_user_permissions(tipo_usuario) ==
    IF tipo_usuario \in DOMAIN permissions THEN permissions[tipo_usuario] ELSE <<>>

verify_permission_default_true(user_type, permission) ==
    LET permisos == get_user_permissions(user_type)
    IN  IF permission \in DOMAIN permisos THEN permisos[permission] ELSE TRUE

\* permisos.get(permission, False)
verify_permission(user_type, permission) ==
    LET permisos == get_user_permissions(user_type)
    IN  IF permission \in DOMAIN permisos THEN permisos[permission] ELSE FALSE

authenticate_user_any_estado(db, username, password) ==
    LET rows == {k \in DOMAIN db : db[k].username = username}
    IN  IF rows = {} \/ db[Min(rows)].contrasena # password
        THEN [ok |-> FALSE, id |-> 0]
        ELSE [ok |-> TRUE, id |-> Min(rows)]

\* query(Usuario).filter(username == username, estado == "Activo").first(),
\* then `not usuario or usuario.contraseña != password`
authenticate_user(db, username, password) ==
    LET rows == {k \in DOMAIN db : db[k].username = username /\ db[k].estado = "Activo"}
    IN  IF rows = {} \/ db[Min(rows)].contrasena # password
        THEN [ok |-> FALSE, id |-> 0]
        ELSE [ok |-> TRUE, id |-> Min(rows)]

\* CRUDAuth.reset_password: the row by username, whatever its estado
auth_reset_password(db, username, new_password) ==
    LET rows == {k \in DOMAIN db : db[k].username = username}
    IN  IF rows = {} THEN [ok |-> FALSE, db |-> db]
        ELSE IF Len(new_password) < 3 THEN [ok |-> FALSE, db |-> db]
        ELSE [ok |-> TRUE, db |-> [db EXCEPT ![Min(rows)].contrasena = new_password]]

\* CRUDUsuario.activate_user / deactivate_user: get, then assign estado and commit
set_estado_usuario(db, user_id, estado) ==
    LET g == CRUDBase_get(UsuarioModel, db, user_id)
    IN  IF g.raised THEN [raised |-> TRUE, found |-> FALSE, db |-> db]
        ELSE IF ~g.found THEN [raised |-> FALSE, found |-> FALSE, db |-> db]
        ELSE [raised |-> FALSE, found |-> TRUE, db |-> [db EXCEPT ![g.pk].estado = estado]]

(***************************************************************************)
(* Handlers of app/api/v1/endpoints/auth.py and usuarios.py.               *)
(***************************************************************************)
\* POST /auth/login: LoginRequest validates and normalises, then authenticate_user
login(u, p) ==
    /\ resp' = IF Len(Strip(u)) < 3 \/ Len(p) < 3
               THEN [op |-> "auth_login", username |-> u, password |-> p,
                     status |-> 422, user |-> 0]
               ELSE LET r == authenticate_user(usuarios, StrLower(Strip(u)), p)
                    IN  [op |-> "auth_login", username |-> StrLower(Strip(u)),
                         password |-> p,
                         status |-> IF r.ok THEN 200 ELSE 401, user |-> r.id]
    /\ UNCHANGED <<authVars, clienteVars, clinicVars, req>>

\* POST /usuarios/login: UsuarioLogin has no validator, the username goes as sent
login_usuario(u, p) ==
    /\ resp' = LET r == authenticate_user(usuarios, u, p)
               IN  [op |-> "usuarios_login", username |-> u, password |-> p,
                    status |-> IF r.ok THEN 200 ELSE 401, user |-> r.id]
    /\ UNCHANGED <<authVars, clienteVars, clinicVars, req>>

\* POST /auth/check-permission body: auth.verify_permission(user_type, permission)
check_permission(user_type, permission) ==
    /\ resp' = [op |-> "verify_permission", user_type |-> user_type,
                permission |-> permission,
                result |-> verify_permission(user_type, permission)]
    /\ UNCHANGED <<authVars, clienteVars, clinicVars, req>>

\* POST /auth/reset-password: PasswordResetRequest validates the body (the
\* admin_confirmation flag is a field of the body), then auth.reset_password
reset_password(caller, u, p, admin_confirmation) ==
    IF Len(Strip(u)) < 3 \/ Len(p) < 3 \/ ~admin_confirmation
    THEN /\ resp' = [op |-> "auth_reset_password", caller |-> caller, status |-> 422]
         /\ UNCHANGED <<authVars, clienteVars, clinicVars, req>>
    ELSE LET r == auth_reset_password(usuarios, StrLower(Strip(u)), p)
         IN  /\ usuarios' = r.db
             /\ resp' = [op |-> "auth_reset_password", caller |-> caller,
                         status |-> IF r.ok THEN 200 ELSE 400]
             /\ UNCHANGED <<clienteVars, clinicVars, req>>

\* PATCH /usuarios/{usuario_id}/reset-password: PasswordReset validates the
\* password, usuario.get, then auth.reset_password by the body's username
usuarios_reset_password(caller, usuario_id, u, p) ==
    LET g == CRUDBase_get(UsuarioModel, usuarios, usuario_id)
        r == auth_reset_password(usuarios, u, p)
        status == IF Len(p) < 3 THEN 422
                  ELSE IF g.raised THEN 500
                  ELSE IF ~g.found THEN 404
                  ELSE IF r.ok THEN 200 ELSE 400
    IN  /\ usuarios' = IF status = 200 THEN r.db ELSE usuarios
        /\ resp' = [op |-> "usuarios_reset_password", caller |-> caller,
                    usuario_id |-> usuario_id, status |-> status]
        /\ UNCHANGED <<clienteVars, clinicVars, req>>

\* PATCH /usuarios/{usuario_id}/activate
activate_usuario(usuario_id) ==
    LET r == set_estado_usuario(usuarios, usuario_id, "Activo")
    IN  /\ usuarios' = r.db
        /\ resp' = [op |-> "activate_usuario", usuario_id |-> usuario_id,
                    status |-> IF r.raised THEN 500 ELSE IF r.found THEN 200 ELSE 404]
        /\ UNCHANGED <<clienteVars, clinicVars, req>>

\* PATCH /usuarios/{usuario_id}/deactivate
deactivate_usuario(usuario_id) ==
    LET r == set_estado_usuario(usuarios, usuario_id, "Inactivo")
    IN  /\ usuarios' = r.db
        /\ resp' = [op |-> "deactivate_usuario", usuario_id |-> usuario_id,
                    status |-> IF r.raised THEN 500 ELSE IF r.found THEN 200 ELSE 404]
        /\ UNCHANGED <<clienteVars, clinicVars, req>>

NoResponse == [op |-> "none", status |-> 0]

UsuarioRow(i, pw, estado) ==
    [id_usuario |-> i, username |-> UserName(i), contrasena |-> pw,
     tipo_usuario |-> TipoOf(i), estado |-> estado]

\* every stored user with any stored password and either estado
InitUsuarios ==
    usuarios \in {[i \in UsuarioIds |-> UsuarioRow(i, pw[i], es[i])] :
                    pw \in [UsuarioIds -> StoredPasswords],
                    es \in [UsuarioIds -> {"Activo", "Inactivo"}]}

DefaultUsuarios ==
    usuarios = [i \in UsuarioIds |-> UsuarioRow(i, <<"p", "w", "1">>, "Activo")]

NextAuth ==
    \/ \E u \in UsernameInputs, p \in PasswordInputs : login(u, p)
    \/ \E u \in UsernameInputs, p \in PasswordInputs : login_usuario(u, p)
    \/ \E t \in {"Administrador", "Veterinario", "Recepcionista", "Cliente"},
          p \in AllPermissions \cup {"borrar_todo"} : check_permission(t, p)
    \/ \E c \in Callers, u \in UsernameInputs, p \in PasswordInputs, a \in BOOLEAN :
          reset_password(c, u, p, a)
    \/ \E c \in Callers, i \in UsuarioIdInputs, u \in UsernameInputs, p \in PasswordInputs :
          usuarios_reset_password(c, i, u, p)
    \/ \E i \in UsuarioIdInputs : activate_usuario(i)
    \/ \E i \in UsuarioIdInputs : deactivate_usuario(i)

(***************************************************************************)
(* Clinical workflow (app/crud/consulta_crud.py, veterinario_crud.py,      *)
(* app/api/v1/endpoints/consultas.py).                                     *)
(***************************************************************************)
\* requests in flight at once: server processes that share the database (one
\* process serves its requests one after another, the handlers never await)
Workers == {"w1", "w2"}

VeterinarioIds == 1..NumVeterinarios

TriajeIds == 1..NumTriajes

\* solicitud 1 has no triaje yet; the triaje t belongs to the solicitud t + 1
SolicitudIds == 1..(NumTriajes + 1)

EstadosSolicitud == {"Pendiente", "En triaje", "En atencion", "Completada", "Cancelada"}

estados_validos == <<"Pendiente", "En triaje", "En atencion", "Completada", "Cancelada">>

\* table Triaje: no modelled handler writes it
triaje == [t \in TriajeIds |-> [id_triaje |-> t, id_solicitud |-> t + 1, id_veterinario |-> 1]]

Idle == [pc |-> "idle"]

\* CRUDBase.create: add, commit, refresh; the key is the table's next autoincrement
CRUDBase_create(table, id_field, obj_in) ==
    LET id == Cardinality(DOMAIN table) + 1
    IN  [id |-> id, table |-> table @@ (id :> (obj_in @@ (id_field :> id)))]

get_by_triaje_never_found(db, triaje_id) == [found |-> FALSE, pk |-> 0]

\* CRUDConsulta.get_by_triaje
get_by_triaje(db, triaje_id) ==
    LET hits == {k \in DOMAIN db : db[k].id_triaje = triaje_id}
    IN  IF hits = {} THEN [found |-> FALSE, pk |-> 0] ELSE [found |-> TRUE, pk |-> Min(hits)]

cambiar_estado_unless_closed(db, solicitud_id, nuevo_estado) ==
    LET g == CRUDBase_get(SolicitudAtencionModel, db, solicitud_id)
    IN  IF g.found /\ db[g.pk].estado \notin {"Completada", "Cancelada"}
        THEN [found |-> TRUE, db |-> [db EXCEPT ![g.pk].estado = nuevo_estado]]
        ELSE [found |-> g.found, db |-> db]

\* CRUDSolicitudAtencion.cambiar_estado
cambiar_estado(db, solicitud_id, nuevo_estado) ==
    LET g == CRUDBase_get(SolicitudAtencionModel, db, solicitud_id)
    IN  IF g.found THEN [found |-> TRUE, db |-> [db EXCEPT ![g.pk].estado = nuevo_estado]]
        ELSE [found |-> FALSE, db |-> db]

cambiar_disposicion_never_libre(db, veterinario_id, nueva_disposicion) ==
    LET g == CRUDBase_get(VeterinarioModel, db, veterinario_id)
    IN  IF g.found /\ nueva_disposicion # "Libre"
        THEN [found |-> TRUE, db |-> [db EXCEPT ![g.pk].disposicion = nueva_disposicion]]
        ELSE [found |-> g.found, db |-> db]

cambiar_disposicion_not_stored(db, veterinario_id, nueva_disposicion) ==
    [found |-> CRUDBase_get(VeterinarioModel, db, veterinario_id).found, db |-> db]

\* CRUDVeterinario.cambiar_disposicion
cambiar_disposicion(db, veterinario_id, nueva_disposicion) ==
    LET g == CRUDBase_get(VeterinarioModel, db, veterinario_id)
    IN  IF g.found THEN [found |-> TRUE, db |-> [db EXCEPT ![g.pk].disposicion = nueva_disposicion]]
        ELSE [found |-> FALSE, db |-> db]

\* CRUDHistorialClinico.add_evento_consulta, through add_evento and create
add_evento_consulta(db, mascota_id, consulta_id, veterinario_id) ==
    CRUDBase_create(db, "id_historial",
                    [id_mascota |-> mascota_id, id_consulta |-> consulta_id,
                     id_veterinario |-> veterinario_id, tipo_evento |-> "Consulta médica"])

rollback_on_exception(db, id_consulta) ==
    [k \in DOMAIN db \ {id_consulta} |-> db[k]]

\* `except Exception` of create_consulta: only the answer is built; the rows the
\* earlier commits stored are not touched
consulta_after_exception(db, id_consulta) == db

CCResp(w, step, status, r) ==
    [op |-> "create_consulta", step |-> step, status |-> status,
     id_consulta |-> r.id_consulta]

\* the handler's except clause at any step after the checks
cc_raise(w, step) ==
    /\ consulta' = consulta_after_exception(consulta, req[w].id_consulta)
    /\ req' = [req EXCEPT ![w] = Idle]
    /\ resp' = CCResp(w, step, 500, req[w])

\* POST /consultas/ up to the insert: the three existence checks
cc_begin(w, t, v) ==
    LET tg == CRUDBase_get(TriajeModel, triaje, t)
        vg == CRUDBase_get(VeterinarioModel, veterinario, v)
        ex == get_by_triaje(consulta, t)
        pass == tg.found /\ vg.found /\ ~ex.found
        r == [pc |-> "cc_create", id_triaje |-> t, id_veterinario |-> v,
              id_solicitud |-> IF tg.found THEN triaje[tg.pk].id_solicitud ELSE 0,
              id_consulta |-> 0, solicitud_found |-> FALSE, id_mascota |-> 0]
    IN  /\ req[w] = Idle
        /\ pass => Cardinality(DOMAIN consulta)
                     + Cardinality({x \in Workers : req[x].pc = "cc_create"}) < MaxConsultas
        /\ req' = IF pass THEN [req EXCEPT ![w] = r] ELSE req
        /\ resp' = [op |-> "create_consulta", step |-> "check",
                    status |-> IF pass THEN 0 ELSE 400,
                    id_triaje |-> t, id_veterinario |-> v,
                    detail |-> IF ~tg.found THEN "Triaje no encontrado"
                               ELSE IF ~vg.found THEN "Veterinario no encontrado"
                               ELSE IF ex.found THEN "Ya existe una consulta para este triaje"
                               ELSE ""]
        /\ UNCHANGED <<authVars, clienteVars, clinicVars>>

\* consulta.create(db, obj_in=consulta_dict).  The insert fails (fail) when the
\* request carries no fecha_consulta (dict.get finds the key, with None, and the
\* column is NOT NULL) or when the commit itself fails
cc_create(w, fail) ==
    /\ req[w].pc = "cc_create"
    /\ IF fail
       THEN cc_raise(w, "create") /\ UNCHANGED <<veterinario, solicitud, historial>>
       ELSE LET c == CRUDBase_create(consulta, "id_consulta",
                                     [id_triaje |-> req[w].id_triaje,
                                      id_veterinario |-> req[w].id_veterinario])
                r == [req[w] EXCEPT !.pc = "cc_vet", !.id_consulta = c.id]
            IN  /\ consulta' = c.table
                /\ req' = [req EXCEPT ![w] = r]
                /\ resp' = CCResp(w, "create", 0, r)
                /\ UNCHANGED <<veterinario, solicitud, historial>>
    /\ UNCHANGED <<authVars, clienteVars, diagnostico, finalizadas>>

\* veterinario.cambiar_disposicion(..., "Ocupado")
cc_vet(w, fail) ==
    /\ req[w].pc = "cc_vet"
    /\ IF fail
       THEN cc_raise(w, "vet") /\ UNCHANGED <<veterinario, solicitud, historial>>
       ELSE /\ veterinario' = cambiar_disposicion(veterinario, req[w].id_veterinario, "Ocupado").db
            /\ req' = [req EXCEPT ![w].pc = "cc_solicitud"]
            /\ resp' = CCResp(w, "vet", 0, req[w])
            /\ UNCHANGED <<consulta, solicitud, historial>>
    /\ UNCHANGED <<authVars, clienteVars, diagnostico, finalizadas>>

\* solicitud_atencion.get(triaje_obj.id_solicitud), then cambiar_estado "En atencion"
cc_solicitud(w, fail) ==
    LET g == CRUDBase_get(SolicitudAtencionModel, solicitud, req[w].id_solicitud)
    IN  /\ req[w].pc = "cc_solicitud"
        /\ IF fail
           THEN cc_raise(w, "solicitud") /\ UNCHANGED <<veterinario, solicitud, historial>>
           ELSE /\ solicitud' = IF g.found
                                THEN cambiar_estado(solicitud, req[w].id_solicitud, "En atencion").db
                                ELSE solicitud
                /\ req' = [req EXCEPT ![w].pc = "cc_historial",
                                      ![w].solicitud_found = g.found,
                                      ![w].id_mascota = IF g.found THEN solicitud[g.pk].id_mascota ELSE 0]
                /\ resp' = CCResp(w, "solicitud", 0, req[w])
                /\ UNCHANGED <<consulta, veterinario, historial>>
        /\ UNCHANGED <<authVars, clienteVars, diagnostico, finalizadas>>

\* historial_clinico.add_evento_consulta when the solicitud was found; return 201
cc_historial(w, fail) ==
    /\ req[w].pc = "cc_historial"
    /\ IF fail
       THEN cc_raise(w, "historial") /\ UNCHANGED <<veterinario, solicitud, historial>>
       ELSE /\ historial' = IF req[w].solicitud_found
                            THEN add_evento_consulta(historial, req[w].id_mascota,
                                                     req[w].id_consulta,
                                                     req[w].id_veterinario).table
                            ELSE historial
            /\ req' = [req EXCEPT ![w] = Idle]
            /\ resp' = CCResp(w, "historial", 201, req[w])
            /\ UNCHANGED <<consulta, veterinario, solicitud>>
    /\ UNCHANGED <<authVars, clienteVars, diagnostico, finalizadas>>

FCResp(step, status, consulta_id) ==
    [op |-> "finalizar_consulta", step |-> step, status |-> status,
     consulta_id |-> consulta_id]

\* PATCH /consultas/{consulta_id}/finalizar up to its first commit: consulta.get
\* (404 when there is none), then veterinario.cambiar_disposicion(..., "Libre")
fc_begin(w, consulta_id, fail) ==
    LET g == CRUDBase_get(ConsultaModel, consulta, consulta_id)
    IN  /\ req[w] = Idle
        /\ IF ~g.found
           THEN /\ resp' = FCResp("check", 404, consulta_id)
                /\ UNCHANGED <<veterinario, req>>
           ELSE IF fail
           THEN /\ resp' = FCResp("vet", 500, consulta_id)
                /\ UNCHANGED <<veterinario, req>>
           ELSE /\ veterinario' = cambiar_disposicion(veterinario,
                                                      consulta[g.pk].id_veterinario, "Libre").db
                /\ req' = [req EXCEPT ![w] = [pc |-> "fc_solicitud",
                                              id_consulta |-> consulta_id,
                                              id_triaje |-> consulta[g.pk].id_triaje]]
                /\ resp' = FCResp("vet", 0, consulta_id)
        /\ UNCHANGED <<authVars, clienteVars, solicitud, consulta, historial, diagnostico>>

\* triaje.get(consulta_obj.id_triaje); when found,
\* solicitud_atencion.cambiar_estado(..., "Completada"); return 200
fc_solicitud(w, fail) ==
    LET tg == CRUDBase_get(TriajeModel, triaje, req[w].id_triaje)
    IN  /\ req[w].pc = "fc_solicitud"
        /\ IF fail
           THEN /\ resp' = FCResp("solicitud", 500, req[w].id_consulta)
                /\ UNCHANGED solicitud
           ELSE /\ solicitud' = IF tg.found
                                THEN cambiar_estado(solicitud, triaje[tg.pk].id_solicitud,
                                                    "Completada").db
                                ELSE solicitud
                /\ resp' = FCResp("solicitud", 200, req[w].id_consulta)
        /\ req' = [req EXCEPT ![w] = Idle]
        /\ UNCHANGED <<authVars, clienteVars, veterinario, consulta, historial,
                       diagnostico, finalizadas>>

\* PATCH /consultas/solicitudes/{solicitud_id}/estado
actualizar_estado_solicitud(solicitud_id, nuevo_estado) ==
    LET valid == \E i \in 1..Len(estados_validos) : estados_validos[i] = nuevo_estado
        r == cambiar_estado(solicitud, solicitud_id, nuevo_estado)
    IN  /\ solicitud' = IF valid THEN r.db ELSE solicitud
        /\ resp' = [op |-> "actualizar_estado_solicitud", solicitud_id |-> solicitud_id,
                    nuevo_estado |-> nuevo_estado,
                    estado_anterior |-> IF solicitud_id \in DOMAIN solicitud
                                        THEN solicitud[solicitud_id].estado ELSE "",
                    status |-> IF ~valid THEN 400 ELSE IF r.found THEN 200 ELSE 404]
        /\ UNCHANGED <<authVars, clienteVars, veterinario, consulta, historial,
                       diagnostico, finalizadas, req>>

VeterinarioRow(v, disposicion) == [id_veterinario |-> v, disposicion |-> disposicion]

SolicitudRow(s, estado) == [id_solicitud |-> s, id_mascota |-> 1, estado |-> estado]

DefaultClinic ==
    /\ veterinario = [v \in VeterinarioIds |-> VeterinarioRow(v, "Libre")]
    /\ solicitud = [s \in SolicitudIds |->
                      SolicitudRow(s, IF s = 1 THEN "Pendiente" ELSE "En triaje")]
    /\ consulta = <<>>
    /\ historial = <<>>
    /\ diagnostico = <<>>
    /\ finalizadas = {}

\* solicitudes in any estado of the enum
InitSolicitudes ==
    /\ veterinario = [v \in VeterinarioIds |-> VeterinarioRow(v, "Libre")]
    /\ solicitud \in {[s \in SolicitudIds |-> SolicitudRow(s, es[s])] :
                        es \in [SolicitudIds -> EstadosSolicitud]}
    /\ consulta = <<>>
    /\ historial = <<>>
    /\ diagnostico = <<>>
    /\ finalizadas = {}

NextSolicitud ==
    \E s \in 1..(NumTriajes + 2), e \in EstadosSolicitud \cup {"Archivada"} :
        actualizar_estado_solicitud(s, e)

NextConsulta ==
    \/ \E w \in Workers, t \in 1..(NumTriajes + 1), v \in 1..(NumVeterinarios + 1) :
          cc_begin(w, t, v)
    \/ \E w \in Workers, fail \in BOOLEAN : cc_create(w, fail)
    \/ \E w \in Workers, fail \in BOOLEAN : cc_vet(w, fail)
    \/ \E w \in Workers, fail \in BOOLEAN : cc_solicitud(w, fail)
    \/ \E w \in Workers, fail \in BOOLEAN : cc_historial(w, fail)

NextFinalizar ==
    \/ \E w \in Workers, k \in 1..(MaxConsultas + 1), fail \in BOOLEAN :
          fc_begin(w, k, fail) /\ UNCHANGED finalizadas
    \/ \E w \in Workers, fail \in BOOLEAN : fc_solicitud(w, fail)

\* the process started by main.py's uvicorn.run: one process, whose handlers
\* never await, so it takes a request only when the one before is answered
MainProcess == "w1"

NoRequestInFlight == \A x \in Workers : req[x] = Idle

\* create_consulta and finalizar_consulta calls served by that one process;
\* with logged, the history of the finalizar_consulta calls is kept
WorkflowCalls(logged) ==
    \/ \E t \in 1..(NumTriajes + 1), v \in 1..(NumVeterinarios + 1) :
          NoRequestInFlight /\ cc_begin(MainProcess, t, v)
    \/ \E fail \in BOOLEAN : cc_create(MainProcess, fail)
    \/ \E fail \in BOOLEAN : cc_vet(MainProcess, fail)
    \/ \E fail \in BOOLEAN : cc_solicitud(MainProcess, fail)
    \/ \E fail \in BOOLEAN : cc_historial(MainProcess, fail)
    \/ \E k \in 1..(MaxConsultas + 1), fail \in BOOLEAN :
          /\ NoRequestInFlight
          /\ fc_begin(MainProcess, k, fail)
          /\ finalizadas' = IF logged /\ resp'.status = 0
                            THEN finalizadas \cup {k}
                            ELSE finalizadas
    \/ \E fail \in BOOLEAN : fc_solicitud(MainProcess, fail)

NextWorkflow == WorkflowCalls(FALSE)

NextWorkflowLogged == WorkflowCalls(TRUE)

\* the triaje of the last solicitud was taken and the solicitud then cancelled
\* (PATCH .../estado accepts it); the others are as in DefaultClinic
CancelledClinic ==
    /\ veterinario = [v \in VeterinarioIds |-> VeterinarioRow(v, "Libre")]
    /\ solicitud = [s \in SolicitudIds |->
                      SolicitudRow(s, IF s = 1 THEN "Pendiente"
                                      ELSE IF s = NumTriajes + 1 THEN "Cancelada"
                                      ELSE "En triaje")]
    /\ consulta = <<>>
    /\ historial = <<>>
    /\ diagnostico = <<>>
    /\ finalizadas = {}

(***************************************************************************)
(* Clientes, mascotas and citas (app/api/v1/endpoints/clientes.py,         *)
(* mascota.py, consultas.py).                                              *)
(***************************************************************************)
ClienteIds == 1..NumClientes

\* table Servicio_Solicitado: no modelled handler writes it
servicio_solicitado ==
    [k \in {1} |-> [id_servicio_solicitado |-> k, id_consulta |-> 1, id_servicio |-> 1]]

CRUDBase_remove(db, id) ==
    LET g == CRUDBase_get(ClienteModel, db, id)
    IN  IF g.found THEN [k \in DOMAIN db \ {g.pk} |-> db[k]] ELSE db

soft_delete_drops_row(db, id) ==
    [k \in DOMAIN db \ {id} |-> db[k]]

\* CRUDBase.soft_delete: the row stays, estado becomes "Inactivo"
CRUDBase_soft_delete(db, id) ==
    LET g == CRUDBase_get(ClienteModel, db, id)
    IN  IF g.found /\ "estado" \in DOMAIN db[g.pk]
        THEN [db EXCEPT ![g.pk].estado = "Inactivo"]
        ELSE db

\* ForeignKey('Cliente.id_cliente') of Cliente_Mascota
ReferencedCliente(id) == \E k \in DOMAIN cliente_mascota : cliente_mascota[k].id_cliente = id

\* DELETE /clientes/{cliente_id}?permanent=...; the handler has no try block, so
\* the IntegrityError of deleting a referenced row leaves as a 500
delete_cliente(cliente_id, permanent) ==
    LET g == CRUDBase_get(ClienteModel, cliente, cliente_id)
        status == IF ~g.found THEN 404
                  ELSE IF permanent /\ ReferencedCliente(cliente_id) THEN 500 ELSE 200
    IN  /\ cliente' = IF status # 200 THEN cliente
                      ELSE IF permanent THEN CRUDBase_remove(cliente, cliente_id)
                      ELSE CRUDBase_soft_delete(cliente, cliente_id)
        /\ resp' = [op |-> "delete_cliente", cliente_id |-> cliente_id,
                    permanent |-> permanent, status |-> status]
        /\ UNCHANGED <<authVars, mascota, cliente_mascota, cita, clinicVars, req>>

CMResp(w, step, status, cliente_id, id_mascota) ==
    [op |-> "create_mascota", step |-> step, status |-> status,
     cliente_id |-> cliente_id, id_mascota |-> id_mascota]

\* POST /mascotas/?cliente_id=... up to the first commit: cliente.get, the raza
\* check (its HTTPException is swallowed by `except Exception: pass`), and
\* mascota.create, which commits the mascota (a missing raza fails its foreign key)
cm_begin(w, cliente_id, raza_exists, fail) ==
    LET g == CRUDBase_get(ClienteModel, cliente, cliente_id)
        c == CRUDBase_create(mascota, "id_mascota", [id_raza |-> 1])
    IN  /\ req[w] = Idle
        /\ Cardinality(DOMAIN mascota) < MaxMascotas
        /\ IF ~g.found
           THEN /\ resp' = CMResp(w, "check", 400, cliente_id, 0)
                /\ UNCHANGED <<mascota, req>>
           ELSE IF ~raza_exists \/ fail
           THEN /\ resp' = CMResp(w, "create", 500, cliente_id, 0)
                /\ UNCHANGED <<mascota, req>>
           ELSE /\ mascota' = c.table
                /\ req' = [req EXCEPT ![w] = [pc |-> "cm_link", cliente_id |-> cliente_id,
                                              id_mascota |-> c.id]]
                /\ resp' = CMResp(w, "create", 0, cliente_id, c.id)
        /\ UNCHANGED <<authVars, cliente, cliente_mascota, cita, clinicVars>>

\* db.add(ClienteMascota(...)); db.commit(): the second commit of the handler
cm_link(w, fail) ==
    LET r == req[w]
        c == CRUDBase_create(cliente_mascota, "id_cliente_mascota",
                             [id_cliente |-> r.cliente_id, id_mascota |-> r.id_mascota])
    IN  /\ r.pc = "cm_link"
        /\ IF fail \/ r.cliente_id \notin DOMAIN cliente
           THEN /\ resp' = CMResp(w, "link", 500, r.cliente_id, r.id_mascota)
                /\ UNCHANGED cliente_mascota
           ELSE /\ cliente_mascota' = c.table
                /\ resp' = CMResp(w, "link", 201, r.cliente_id, r.id_mascota)
        /\ req' = [req EXCEPT ![w] = Idle]
        /\ UNCHANGED <<authVars, cliente, mascota, cita, clinicVars>>

\* `def create(self, db, *, obj_in)`: positional parameters self and db
create_positional_params == 2

\* a call binds the instance as self; a call on the class binds nothing, and
\* Python raises TypeError when positional parameters stay unfilled
call_raises(on_instance, positional_args) ==
    positional_args + (IF on_instance THEN 1 ELSE 0) # create_positional_params

\* POST /consultas/cita: mascota.get, servicio_solicitado.get, then
\* CRUDCita.create(db, obj_in=cita_dict) on the class, inside try/except Exception
create_cita(id_mascota, id_servicio_solicitado) ==
    LET mg == CRUDBase_get(MascotaModel, mascota, id_mascota)
        sg == CRUDBase_get(ServicioSolicitadoModel, servicio_solicitado, id_servicio_solicitado)
        raises == call_raises(FALSE, Len(<<"db">>))
        c == CRUDBase_create(cita, "id_cita",
                             [id_mascota |-> id_mascota,
                              id_servicio_solicitado |-> id_servicio_solicitado,
                              estado_cita |-> "Programada"])
        status == IF ~mg.found \/ ~sg.found THEN 400 ELSE IF raises THEN 500 ELSE 201
    IN  /\ cita' = IF status = 201 THEN c.table ELSE cita
        /\ resp' = [op |-> "create_cita", id_mascota |-> id_mascota,
                    id_servicio_solicitado |-> id_servicio_solicitado,
                    status |-> status,
                    id_cita |-> IF status = 201 THEN c.id ELSE 0]
        /\ UNCHANGED <<authVars, cliente, mascota, cliente_mascota, clinicVars, req>>

ClienteRow(i, estado) == [id_cliente |-> i, dni |-> i, estado |-> estado]

\* active clientes; mascota 1 of cliente 1 (the one the solicitudes name)
DefaultClientes ==
    /\ cliente = [i \in ClienteIds |-> ClienteRow(i, "Activo")]
    /\ mascota = (1 :> [id_mascota |-> 1, id_raza |-> 1])
    /\ cliente_mascota = (1 :> [id_cliente_mascota |-> 1, id_cliente |-> 1, id_mascota |-> 1])
    /\ cita = <<>>

NextCliente ==
    \/ \E i \in 1..(NumClientes + 1), permanent \in BOOLEAN : delete_cliente(i, permanent)
    \/ \E w \in Workers, i \in 1..(NumClientes + 1), raza_exists \in BOOLEAN, fail \in BOOLEAN :
          cm_begin(w, i, raza_exists, fail)
    \/ \E w \in Workers, fail \in BOOLEAN : cm_link(w, fail)
    \/ \E m \in 1..(MaxMascotas + 1), ss \in 1..2 : create_cita(m, ss)

(***************************************************************************)
(* The get of every CRUD singleton (app/crud/base_crud.py).                *)
(***************************************************************************)
\* table Resultado_servicio: no modelled handler writes it.  The first result
\* stored belongs to the second cita
resultado_servicio ==
    (1 :> [id_resultado |-> 1, id_cita |-> 2, id_veterinario |-> 1])

\* the table behind each CRUD singleton
TableOf(name) ==
    CASE name = "Usuario" -> usuarios
      [] name = "Cliente" -> cliente
      [] name = "Mascota" -> mascota
      [] name = "Veterinario" -> veterinario
      [] name = "SolicitudAtencion" -> solicitud
      [] name = "Triaje" -> triaje
      [] name = "Consulta" -> consulta
      [] name = "ServicioSolicitado" -> servicio_solicitado
      [] name = "HistorialClinico" -> historial
      [] name = "ResultadoServicio" -> resultado_servicio

GetIdInputs == 1..3

\* singleton.get(db, id), as the handlers call it between requests' commits
crud_get(model, id) ==
    LET g == CRUDBase_get(model, TableOf(model.name), id)
    IN  /\ resp' = [op |-> "get", model |-> model.name, id |-> id,
                    raised |-> g.raised, found |-> g.found, pk |-> g.pk]
        /\ UNCHANGED <<authVars, clienteVars, clinicVars, req>>

\* two citas stored (POST /consultas/cita stores none, the rows come with the
\* database), the second one with a result
SeededCitas ==
    /\ cliente = [i \in ClienteIds |-> ClienteRow(i, "Activo")]
    /\ mascota = (1 :> [id_mascota |-> 1, id_raza |-> 1])
    /\ cliente_mascota = (1 :> [id_cliente_mascota |-> 1, id_cliente |-> 1, id_mascota |-> 1])
    /\ cita = [k \in 1..2 |-> [id_cita |-> k, id_mascota |-> 1, id_servicio_solicitado |-> 1,
                                estado_cita |-> "Programada"]]

NextGet ==
    \/ \E m \in Models, id \in GetIdInputs : NoRequestInFlight /\ crud_get(m, id)
    \/ NextWorkflow

(***************************************************************************)
(* Specifications.                                                         *)
(***************************************************************************)
InitRequests == req = [w \in Workers |-> Idle] /\ resp = NoResponse

Init == InitUsuarios /\ DefaultClientes /\ InitSolicitudes /\ InitRequests

InitAuth == InitUsuarios /\ DefaultClientes /\ DefaultClinic /\ InitRequests

InitSolicitud == DefaultUsuarios /\ DefaultClientes /\ InitSolicitudes /\ InitRequests

InitConsulta == DefaultUsuarios /\ DefaultClientes /\ DefaultClinic /\ InitRequests

InitCliente == DefaultUsuarios /\ DefaultClientes /\ DefaultClinic /\ InitRequests

InitWorkflow == DefaultUsuarios /\ DefaultClientes /\ CancelledClinic /\ InitRequests

InitGet == DefaultUsuarios /\ SeededCitas /\ DefaultClinic /\ InitRequests

Next == NextAuth \/ NextCliente \/ NextSolicitud \/ NextConsulta \/ NextFinalizar

Spec == Init /\ [][Next]_vars

\* users, logins, password resets, activation, permissions
SpecAuth == InitAuth /\ [][NextAuth]_vars

\* the status of a solicitud set by PATCH
SpecSolicitud == InitSolicitud /\ [][NextSolicitud]_vars

\* consultation creation by concurrent requests
SpecConsulta == InitConsulta /\ [][NextConsulta]_vars

\* consultations created and finalized, one request after another
SpecWorkflow == InitWorkflow /\ [][NextWorkflow]_vars

\* the same calls, with the history of the finalizar_consulta calls
SpecWorkflowLogged == InitWorkflow /\ [][NextWorkflowLogged]_vars

\* reads by id through every CRUD singleton, between workflow calls
SpecGet == InitGet /\ [][NextGet]_vars

\* clientes, mascotas and citas
SpecCliente == InitCliente /\ [][NextCliente]_vars

(***************************************************************************)
(* Properties.                                                             *)
(***************************************************************************)
\* C1: for an existing solicitud in any estado and any nuevo_estado of the five
\* valid ones, PATCH /solicitudes/{id}/estado answers 200 and leaves
\* estado = nuevo_estado; no pair of estados is rejected.
C1_UnconditionalOverwrite ==
    [][(/\ resp'.op = "actualizar_estado_solicitud"
        /\ resp'.solicitud_id \in DOMAIN solicitud
        /\ resp'.nuevo_estado \in EstadosSolicitud)
       => (/\ resp'.status = 200
           /\ solicitud'[resp'.solicitud_id].estado = resp'.nuevo_estado
           /\ resp'.estado_anterior = solicitud[resp'.solicitud_id].estado)]_vars

\* a closed solicitud reopened: 'Completada' overwritten with 'Pendiente'
C1_Witness ==
    /\ resp.op = "actualizar_estado_solicitud"
    /\ resp.status = 200
    /\ resp.estado_anterior = "Completada"
    /\ resp.nuevo_estado = "Pendiente"
    /\ solicitud[resp.solicitud_id].estado = "Pendiente"
\* C2: when a step of create_consulta fails after the consulta row was committed
\* (veterinarian disposition, solicitud state or historial insert), the answer is
\* 500, the failing step leaves every table as the earlier commits left it (the
\* consulta row included), no step ever removes or alters a consulta row, and
\* a historial row is only ever written by the request that created its consulta.
C2_PartialFailureStays ==
    [][/\ (/\ resp'.op = "create_consulta"
            /\ resp'.status = 500
            /\ resp'.step \in {"vet", "solicitud", "historial"})
           => (/\ resp'.id_consulta \in DOMAIN consulta'
               /\ UNCHANGED clinicVars)
       /\ \A w \in Workers :
              (req[w].pc \in {"cc_vet", "cc_solicitud", "cc_historial"} /\ req'[w].pc = "idle")
              => (resp'.status \in {201, 500} /\ (resp'.status = 500 => UNCHANGED clinicVars))
       /\ \A k \in DOMAIN consulta : k \in DOMAIN consulta' /\ consulta'[k] = consulta[k]
       /\ \A h \in DOMAIN historial' \ DOMAIN historial :
              \E w \in Workers : /\ req[w].pc = "cc_historial"
                                 /\ req[w].id_consulta = historial'[h].id_consulta]_vars

\* the solicitud step failed: the consulta is stored and its veterinarian is
\* 'Ocupado', but the solicitud is not 'En atencion' and no historial row exists
C2_Witness ==
    /\ resp.op = "create_consulta"
    /\ resp.status = 500
    /\ resp.step = "solicitud"
    /\ resp.id_consulta \in DOMAIN consulta
    /\ veterinario[consulta[resp.id_consulta].id_veterinario].disposicion = "Ocupado"
    /\ solicitud[triaje[consulta[resp.id_consulta].id_triaje].id_solicitud].estado # "En atencion"
    /\ \A h \in DOMAIN historial : historial[h].id_consulta # resp.id_consulta
    /\ \A w \in Workers : req[w] = Idle
\* C3 as stated: a created consultation (201) has touched four tables besides the
\* consulta: its veterinarian is 'Ocupado', its solicitud 'En atencion', a
\* historial event of it exists, and a diagnosis of it exists.
C3_FourTablesWithDiagnosis ==
    (resp.op = "create_consulta" /\ resp.status = 201)
    => LET c == consulta[resp.id_consulta]
       IN  /\ veterinario[c.id_veterinario].disposicion = "Ocupado"
           /\ solicitud[triaje[c.id_triaje].id_solicitud].estado = "En atencion"
           /\ \E h \in DOMAIN historial : historial[h].id_consulta = resp.id_consulta
           /\ \E d \in DOMAIN diagnostico : diagnostico[d].id_consulta = resp.id_consulta

\* the tables that a step changes
ChangedTables ==
    {n \in {"consulta", "veterinario", "solicitud", "historial", "diagnostico"} :
        \/ n = "consulta" /\ consulta' # consulta
        \/ n = "veterinario" /\ veterinario' # veterinario
        \/ n = "solicitud" /\ solicitud' # solicitud
        \/ n = "historial" /\ historial' # historial
        \/ n = "diagnostico" /\ diagnostico' # diagnostico}

\* C3 amended: creating a consultation touches three tables besides the consulta
\* itself, each in its own commit: the insert stores the consulta alone, the next
\* commit sets the veterinarian 'Ocupado', the next sets the solicitud
\* 'En atencion', the last adds one historial event of the consulta; every
\* commit writes at most the one table of its step, and none writes a diagnosis.
C3_ThreeTablesOwnCommits ==
    [][(resp'.op = "create_consulta" /\ resp'.status \in {0, 201})
       => /\ "diagnostico" \notin ChangedTables
          /\ resp'.step = "check" => ChangedTables = {}
          /\ resp'.step = "create"
             => /\ ChangedTables = {"consulta"}
                /\ DOMAIN consulta' = DOMAIN consulta \cup {resp'.id_consulta}
          /\ resp'.step = "vet"
             => /\ ChangedTables \subseteq {"veterinario"}
                /\ veterinario'[consulta[resp'.id_consulta].id_veterinario].disposicion
                     = "Ocupado"
          /\ resp'.step = "solicitud"
             => /\ ChangedTables \subseteq {"solicitud"}
                /\ solicitud'[triaje[consulta[resp'.id_consulta].id_triaje].id_solicitud].estado
                     = "En atencion"
          /\ resp'.step = "historial"
             => /\ ChangedTables = {"historial"}
                /\ Cardinality(DOMAIN historial') = Cardinality(DOMAIN historial) + 1
                /\ \E h \in DOMAIN historial' \ DOMAIN historial :
                       historial'[h].id_consulta = resp'.id_consulta]_vars

\* a consultation created with its three side effects stored and no diagnosis
C3_Witness ==
    /\ resp.op = "create_consulta"
    /\ resp.status = 201
    /\ veterinario[consulta[resp.id_consulta].id_veterinario].disposicion = "Ocupado"
    /\ solicitud[triaje[consulta[resp.id_consulta].id_triaje].id_solicitud].estado = "En atencion"
    /\ \E h \in DOMAIN historial : historial[h].id_consulta = resp.id_consulta
    /\ diagnostico = <<>>

\* the rows that carry exactly this username, estado 'Activo' and this password
MatchingUsuarios(username, password) ==
    {k \in DOMAIN usuarios : /\ usuarios[k].username = username
                             /\ usuarios[k].estado = "Activo"
                             /\ usuarios[k].contrasena = password}

\* C4: authenticate_user returns a user if and only if a usuario row has exactly
\* the given username, estado 'Activo' and a contraseña equal character for
\* character to the given password; otherwise it returns None and the login
\* answers 401; a login never changes stored state.  (POST /auth/login hands
\* over the username its schema normalised; a body the schema rejects is
\* answered 422 before authenticate_user is called.)
C4_AuthenticateExactMatch ==
    [][(resp'.op \in {"auth_login", "usuarios_login"})
       => /\ UNCHANGED <<authVars, clienteVars, clinicVars>>
          /\ resp'.status # 422
             => /\ resp'.status = 200 <=> MatchingUsuarios(resp'.username, resp'.password) # {}
                /\ resp'.status = 200 => resp'.user \in MatchingUsuarios(resp'.username, resp'.password)
                /\ resp'.status # 200 => (resp'.status = 401 /\ resp'.user = 0)
          /\ resp'.status = 422 => resp'.op = "auth_login"]_vars

\* an active user named exactly, with a password that differs from the stored
\* one only in the case of a letter, is refused
C4_Witness ==
    /\ resp.op = "auth_login"
    /\ resp.status = 401
    /\ \E k \in DOMAIN usuarios :
          /\ usuarios[k].username = resp.username
          /\ usuarios[k].estado = "Activo"
          /\ usuarios[k].contrasena # resp.password
          /\ StrLower(usuarios[k].contrasena) = StrLower(resp.password)

\* C5: verify_permission is the static per-role table: Administrador holds all
\* 13 permissions, Veterinario 8, Recepcionista 3; an unknown role or an unknown
\* permission gives FALSE; the stored state plays no part in the result.
C5_StaticPermissionTable ==
    /\ resp.op = "verify_permission"
       => resp.result =
            CASE resp.user_type = "Administrador" ->
                    resp.permission \in AllPermissions
              [] resp.user_type = "Veterinario" ->
                    resp.permission \in {"ver_dashboard", "gestionar_clientes",
                                         "gestionar_mascotas", "ver_reportes",
                                         "realizar_triaje", "realizar_consultas",
                                         "gestionar_citas", "ver_historial"}
              [] resp.user_type = "Recepcionista" ->
                    resp.permission \in {"gestionar_clientes", "gestionar_mascotas",
                                         "gestionar_citas"}
              [] OTHER -> FALSE
    /\ Cardinality(AllPermissions) = 13
    /\ Cardinality({p \in AllPermissions : verify_permission("Administrador", p)}) = 13
    /\ Cardinality({p \in AllPermissions : verify_permission("Veterinario", p)}) = 8
    /\ Cardinality({p \in AllPermissions : verify_permission("Recepcionista", p)}) = 3

\* an unknown role asked for a permission every known role holds, after a
\* password was reset: the answer is FALSE
C5_Witness ==
    /\ resp.op = "verify_permission"
    /\ resp.user_type = "Cliente"
    /\ resp.permission = "gestionar_clientes"
    /\ resp.result = FALSE
    /\ \E k \in DOMAIN usuarios : usuarios[k].contrasena = <<"P", "w", "1">>

\* C6 as stated: a password reset request that does not come from an
\* administrator leaves every stored password unchanged.
C6_ResetOnlyByAdministrador ==
    [][(/\ resp'.op \in {"auth_reset_password", "usuarios_reset_password"}
        /\ resp'.caller # "Administrador")
       => \A k \in DOMAIN usuarios : usuarios'[k].contrasena = usuarios[k].contrasena]_vars

\* C7 as stated: POST /consultas/cita with an existing mascota and an existing
\* servicio solicitado answers 201 and stores a new cita whose estado_cita is
\* 'Programada'; with either one missing it answers 400.
C7_CitaProgramada ==
    (resp.op = "create_cita")
    => IF /\ resp.id_mascota \in DOMAIN mascota
          /\ resp.id_servicio_solicitado \in DOMAIN servicio_solicitado
       THEN /\ resp.status = 201
            /\ resp.id_cita \in DOMAIN cita
            /\ cita[resp.id_cita].estado_cita = "Programada"
       ELSE resp.status = 400

\* C8 as stated: whenever create_mascota has answered and left a new mascota
\* stored, a Cliente_Mascota row links that mascota to cliente_id; when the
\* cliente does not exist the answer is 400 and no mascota is stored.
C8_MascotaWithLink ==
    (resp.op = "create_mascota" /\ resp.status # 0)
    => /\ resp.id_mascota \in DOMAIN mascota
          => \E k \in DOMAIN cliente_mascota :
                /\ cliente_mascota[k].id_cliente = resp.cliente_id
                /\ cliente_mascota[k].id_mascota = resp.id_mascota
       /\ resp.status = 400 => resp.id_mascota = 0

C10_ActivationToggles ==
    (resp.op \in {"activate_usuario", "deactivate_usuario"})
    => IF resp.usuario_id \in DOMAIN usuarios
       THEN /\ resp.status = 200
            /\ usuarios[resp.usuario_id].estado
                 = (IF resp.op = "activate_usuario" THEN "Activo" ELSE "Inactivo")
       ELSE resp.status = 404

\* the consultas stored for a triaje
ConsultasOfTriaje(t) == {k \in DOMAIN consulta : consulta[k].id_triaje = t}

\* C11 as stated: right after create_consulta answers 201 for a triaje whose
\* solicitud exists, exactly one consulta exists for that triaje, the chosen
\* veterinarian is 'Ocupado', the solicitud is 'En atencion', and exactly one
\* 'Consulta médica' event of the new consulta is stored for the solicitud's mascota.
C11_CreateConsultaFourEffects ==
    (/\ resp.op = "create_consulta"
     /\ resp.status = 201
     /\ triaje[consulta[resp.id_consulta].id_triaje].id_solicitud \in DOMAIN solicitud)
    => LET c == consulta[resp.id_consulta]
           s == solicitud[triaje[c.id_triaje].id_solicitud]
       IN  /\ Cardinality(ConsultasOfTriaje(c.id_triaje)) = 1
           /\ veterinario[c.id_veterinario].disposicion = "Ocupado"
           /\ s.estado = "En atencion"
           /\ Cardinality({h \in DOMAIN historial :
                             /\ historial[h].tipo_evento = "Consulta médica"
                             /\ historial[h].id_mascota = s.id_mascota
                             /\ historial[h].id_consulta = resp.id_consulta}) = 1

\* C12 as stated: create_consulta for a triaje that already has a consulta answers
\* 400 with detail 'Ya existe una consulta para este triaje' and writes no table.
C12_DuplicateAnswersYaExiste ==
    [][(/\ resp'.op = "create_consulta"
        /\ resp'.step = "check"
        /\ ConsultasOfTriaje(resp'.id_triaje) # {})
       => (/\ resp'.status = 400
           /\ resp'.detail = "Ya existe una consulta para este triaje"
           /\ UNCHANGED <<authVars, clienteVars, clinicVars, req>>)]_vars

\* C12, amended: create_consulta for a triaje that already has a consulta answers
\* 400 and writes no table (no consulta, no disposicion, no estado, no historial
\* event) and goes no further; the detail is 'Ya existe una consulta para este
\* triaje' when the named veterinarian exists and 'Veterinario no encontrado'
\* when it does not, because the veterinarian is looked up first.
C12_DuplicateRejectedUnchanged ==
    [][(/\ resp'.op = "create_consulta"
        /\ resp'.step = "check"
        /\ ConsultasOfTriaje(resp'.id_triaje) # {})
       => (/\ resp'.status = 400
           /\ resp'.detail = (IF resp'.id_veterinario \in DOMAIN veterinario
                              THEN "Ya existe una consulta para este triaje"
                              ELSE "Veterinario no encontrado")
           /\ UNCHANGED <<authVars, clienteVars, clinicVars, req>>)]_vars

\* a request refused because its triaje already has a consulta
C12_Witness ==
    /\ resp.op = "create_consulta"
    /\ resp.step = "check"
    /\ resp.status = 400
    /\ resp.detail = "Ya existe una consulta para este triaje"
    /\ ConsultasOfTriaje(resp.id_triaje) # {}

\* C13 as stated: in every reachable state each triaje has at most one consulta,
\* also when two create_consulta requests for the same triaje interleave.
C13_OneConsultaPerTriaje ==
    \A t \in TriajeIds : Cardinality(ConsultasOfTriaje(t)) <= 1

\* C14 as stated: a create_consulta request naming a veterinarian whose
\* disposicion is 'Ocupado' is rejected (400) and goes on to create no consulta.
C14_OcupadoRejected ==
    [][(/\ resp'.op = "create_consulta"
        /\ resp'.step = "check"
        /\ resp'.id_veterinario \in DOMAIN veterinario
        /\ veterinario[resp'.id_veterinario].disposicion = "Ocupado")
       => (resp'.status = 400 /\ UNCHANGED <<consulta, req>>)]_vars

\* the consultas a create_consulta call answered 201 for: the historial event is
\* the last write before the answer
Creadas == {k \in DOMAIN consulta : \E h \in DOMAIN historial : historial[h].id_consulta = k}

C16_OcupadoWhileConsultaOpen ==
    NoRequestInFlight
    => \A v \in DOMAIN veterinario :
           (\E k \in Creadas \ finalizadas : consulta[k].id_veterinario = v)
           => veterinario[v].disposicion = "Ocupado"

\* the place of an estado in the order Pendiente, En triaje, En atencion, Completada
OrdenEstado ==
    [e \in EstadosSolicitud |-> CHOOSE i \in 1..Len(estados_validos) : estados_validos[i] = e]

EstadosCerrados == {"Completada", "Cancelada"}

\* C17 as stated: under create_consulta and finalizar_consulta the estado of a
\* solicitud only moves forward in the order Pendiente, En triaje, En atencion,
\* Completada, and a solicitud that is 'Completada' or 'Cancelada' keeps its
\* estado.
C17_ClosedSolicitudKeepsEstado ==
    [][\A s \in DOMAIN solicitud :
          IF solicitud[s].estado \in EstadosCerrados
          THEN solicitud'[s].estado = solicitud[s].estado
          ELSE OrdenEstado[solicitud'[s].estado] >= OrdenEstado[solicitud[s].estado]]_vars

\* C17, amended: a solicitud that is not 'Completada' or 'Cancelada' only moves
\* forward in that order, but a closed one is not protected: create_consulta
\* stores 'En atencion' for the solicitud of its triaje and finalizar_consulta
\* stores 'Completada' for the solicitud of its consulta's triaje whatever the
\* estado was, also 'Completada' or 'Cancelada'; the two operations write no
\* other estado and no other solicitud.
C17_OverwriteWhateverEstado ==
    [][/\ \A s \in DOMAIN solicitud :
            /\ solicitud[s].estado \notin EstadosCerrados
               => OrdenEstado[solicitud'[s].estado] >= OrdenEstado[solicitud[s].estado]
            /\ solicitud'[s].estado # solicitud[s].estado
               => \/ resp'.op = "create_consulta" /\ solicitud'[s].estado = "En atencion"
                  \/ resp'.op = "finalizar_consulta" /\ solicitud'[s].estado = "Completada"
       /\ (resp'.op = "create_consulta" /\ resp'.step = "solicitud" /\ resp'.status = 0)
          => solicitud' = [solicitud EXCEPT
                             ![triaje[consulta[resp'.id_consulta].id_triaje].id_solicitud].estado
                                = "En atencion"]
       /\ (resp'.op = "finalizar_consulta" /\ resp'.status = 200)
          => solicitud' = [solicitud EXCEPT
                             ![triaje[consulta[resp'.consulta_id].id_triaje].id_solicitud].estado
                                = "Completada"]]_vars

\* the solicitud that was 'Cancelada' from the start, set 'En atencion' by a
\* create_consulta for its triaje
C17_Witness ==
    /\ resp.op = "create_consulta"
    /\ resp.step = "solicitud"
    /\ resp.status = 0
    /\ consulta[resp.id_consulta].id_triaje = NumTriajes
    /\ solicitud[NumTriajes + 1].estado = "En atencion"

\* C18 as stated: for every model behind a CRUD singleton, get(db, id) does not
\* raise, returns the row whose primary key equals id when there is one, and
\* None when there is none.
C18_GetByPrimaryKey ==
    (resp.op = "get")
    => /\ ~resp.raised
       /\ IF resp.id \in DOMAIN TableOf(resp.model)
          THEN resp.found /\ resp.pk = resp.id
          ELSE ~resp.found

====
